---- MODULE Spec2Model ----
(***************************************************************************)
(* Smart Tutor AI frontend (app.js): the session-scoped upload-and-chat    *)
(* client of one browser tab, as a state machine.                          *)
(*                                                                         *)
(* JavaScript is single-threaded: a handler runs without interruption up   *)
(* to its first await of a network call, and the continuation after the    *)
(* network call runs as one later step.  An await of a value that is       *)
(* already available (uploadFiles / sendChatMessage returning early when   *)
(* no session id is held) resumes in a microtask, before any other event   *)
(* is delivered, and is therefore part of the same step.                   *)
(*                                                                         *)
(* User events reach only the elements of the screen that is active        *)
(* (README "How to Use"); within the active screen an event may arrive at  *)
(* any time, so every guard written in the handlers is exercised.          *)
(***************************************************************************)
EXTENDS Integers, Sequences, FiniteSets, TLC

VARIABLES
    sessionId,              \* state.sessionId
    isProcessing,           \* state.isProcessing
    currentFiles,           \* state.currentFiles
    stored,                 \* sessionStorage[CONFIG.SESSION_STORAGE_KEY]
    uploadScreenActive,     \* elements.uploadScreen has class 'active'
    chatScreenActive,       \* elements.chatScreen has class 'active'
    uploadIdleHidden,       \* elements.uploadIdle has class 'hidden'
    uploadProcessingHidden, \* elements.uploadProcessing has class 'hidden'
    pointerEvents,          \* elements.uploadZone.style.pointerEvents
    progressFill,           \* elements.progressFill.style.width, in percent
    progressInterval,       \* <<progress>> of the running progress interval, <<>> when none runs
    chatMessages,           \* children of elements.chatMessages, in document order
    messageInput,           \* elements.messageInput.value
    sendBtnDisabled,        \* elements.sendBtn.disabled
    overlayHidden,          \* elements.loadingOverlay has class 'hidden'
    initPending,            \* the POST /session/init of this page load is in flight
    requests,               \* upload and chat fetches in flight, oldest first
    timers,                 \* pending 800 ms screen-switch timers, oldest first
    otherTab,               \* a second tab running the client: its sessionStorage and session state
    toasts,                 \* the toasts shown by the step just taken, in order
    last                    \* the step just taken: handler, its argument, busy flag on entry

vars == <<sessionId, isProcessing, currentFiles, stored, uploadScreenActive,
          chatScreenActive, uploadIdleHidden, uploadProcessingHidden,
          pointerEvents, progressFill, progressInterval, chatMessages,
          messageInput, sendBtnDisabled, overlayHidden, initPending,
          requests, timers, otherTab, toasts, last>>

\* The variables of the page, without the record of the step just taken.
pageVars == <<sessionId, isProcessing, currentFiles, stored, uploadScreenActive,
              chatScreenActive, uploadIdleHidden, uploadProcessingHidden,
              pointerEvents, progressFill, progressInterval, chatMessages,
              messageInput, sendBtnDisabled, overlayHidden, initPending,
              requests, timers>>

-----------------------------------------------------------------------------
(* Bounds of the model *)

MaxBatch == 2          \* files in one selection
MaxTranscript == 3     \* a send is accepted only while the transcript has room for it
MaxTimers == 2         \* screen-switch timers pending at once

-----------------------------------------------------------------------------
(* CONFIG *)

MAX_FILE_SIZE == 10 * 1024 * 1024
MAX_MESSAGE_LENGTH == 2000

-----------------------------------------------------------------------------
(* Values *)

Null == "null"                  \* JavaScript null / undefined / absent field
PdfType == "application/pdf"

\* Session ids the backend hands out.  The client never compares two ids:
\* it tests an id for truthiness, stores it and sends it back.
SessionIds == {"abc123", "xyz789"}

\* Files the user can select, as the folder lists them: a PDF at the size
\* limit, a small PDF, a PDF one byte over the limit, a Word document at the
\* limit, a Word document one byte over.
Files ==
    << [name |-> "a.pdf",     type |-> PdfType,              size |-> MAX_FILE_SIZE],
       [name |-> "notes.pdf", type |-> PdfType,              size |-> 1024],
       [name |-> "big.pdf",   type |-> PdfType,              size |-> MAX_FILE_SIZE + 1],
       [name |-> "b.docx",    type |-> "application/msword", size |-> MAX_FILE_SIZE],
       [name |-> "big.docx",  type |-> "application/msword", size |-> MAX_FILE_SIZE + 1] >>

\* A FileList: the empty selection and every selection of 1..MaxBatch
\* distinct files, in the order the folder lists them.
Batches ==
    UNION { { [i \in 1..n |-> Files[pick[i]]] :
                pick \in { p \in [1..n -> DOMAIN Files] :
                             \A i, j \in 1..n : i < j => p[i] < p[j] } } :
            n \in 0..MaxBatch }

\* A string typed into the message box: `lead` whitespace characters, then
\* `len` characters that start and end with a non-whitespace character and
\* are named by `core`, then `trail` whitespace characters.
EmptyInput == [lead |-> 0, core |-> "", len |-> 0, trail |-> 0]
Inputs ==
    { EmptyInput,
      [lead |-> 2, core |-> "", len |-> 0, trail |-> 1],
      [lead |-> 1, core |-> "2000 characters", len |-> MAX_MESSAGE_LENGTH, trail |-> 1],
      [lead |-> 0, core |-> "2001 characters", len |-> MAX_MESSAGE_LENGTH + 1, trail |-> 0] }

\* Mutant: the typed text is used untrimmed.
Trim_Identity(v) == v

\* String.prototype.trim and String.prototype.length on such a string.
Trim(v) == [lead |-> 0, core |-> v.core, len |-> v.len, trail |-> 0]
Length(v) == v.lead + v.len + v.trail

\* JavaScript truthiness of a string-or-absent value.
Truthy(s) == s \notin {Null, ""}

\* Source citations of a chat response.
Ctx1 == [source |-> "thermo.pdf", page |-> 42]
Ctx2 == [source |-> "notes.pdf", page |-> 7]
\* What a fetch comes to: the status class of the response ("rejected" when
\* the fetch promise rejects, "notSent" when no fetch was made), whether its
\* body parses as JSON, and the `detail` field of a parsed error body (Null
\* when the body has none).
Outcome(status, body, detail) == [status |-> status, body |-> body, detail |-> detail]

NotSent == Outcome("notSent", "none", Null)
Ok2xx == Outcome("2xx", "json", Null)

\* The fetches that end in the catch block: an error status with a detail,
\* without one, with an empty one, with a body that is not JSON; a success
\* status with a body that is not JSON; a network failure.
FailureOutcomes(detail) ==
    { Outcome("non2xx", "json", d) : d \in {detail, Null, ""} }
    \cup
    { Outcome("non2xx", "unparseable", Null),
      Outcome("2xx", "unparseable", Null),
      Outcome("rejected", "none", Null) }

\* Messages of the errors the platform raises: response.json() on a body
\* that is not JSON, fetch on a network failure.
ParserMessage == "Unexpected token < in JSON"
NetworkMessage == "Failed to fetch"

\* The message of the Error that uploadFiles / sendChatMessage throws for a
\* failed fetch (lines 189-192 and 224-227): a rejected fetch and a rejected
\* response.json() propagate their own error; a parsed error body gives
\* `errorData.detail || generic`.
errorMessage(outcome, generic) ==
    IF outcome.status = "rejected" THEN NetworkMessage
    ELSE IF outcome.body = "unparseable" THEN ParserMessage
    ELSE IF Truthy(outcome.detail) THEN outcome.detail
    ELSE generic

\* The result of uploadFiles / sendChatMessage as the workflow sees it.
\* ok: the data of a 2xx response whose body parsed; otherwise `message` is
\* the message of the Error thrown.  `outcome` is the fetch behind it.
Response(ok, message, welcome, answer, hasContext, context) ==
    [ok |-> ok, message |-> message, welcome_message |-> welcome,
     answer |-> answer, hasContext |-> hasContext, context |-> context,
     outcome |-> IF ok THEN Ok2xx ELSE NotSent]

NoResponse == Response(FALSE, "", Null, Null, FALSE, <<>>)

\* The Error thrown for a failed fetch.
Thrown(outcome, generic) ==
    [Response(FALSE, errorMessage(outcome, generic), Null, Null, FALSE, << >>)
        EXCEPT !.outcome = outcome]

UploadResponses ==
    { Response(TRUE, "", w, Null, FALSE, <<>>) :
        w \in {Null, "Ask me anything about Chapter 3"} }
    \cup
    { Thrown(o, "Upload failed") : o \in FailureOutcomes("Unsupported file") }

ChatResponses ==
    { Response(TRUE, "", Null, "Entropy measures disorder.", TRUE, << Ctx2, Ctx1 >>),
      Response(TRUE, "", Null, "Entropy measures disorder.", TRUE, << >>),
      Response(TRUE, "", Null, "Entropy measures disorder.", FALSE, << >>),
      Response(TRUE, "", Null, "", TRUE, << Ctx1 >>),
      Response(TRUE, "", Null, Null, FALSE, << >>) }
    \cup
    { Thrown(o, "Chat request failed") : o \in FailureOutcomes("Session not found") }

\* Math.random() * 10, sampled.
RandomSteps == {0, 9}

-----------------------------------------------------------------------------
(* Fixed texts *)

WelcomeFallback == "I've finished processing your documents. What would you like to explore?"
AnswerFallback == "I apologize, but I couldn't generate a response. Please try again."
ConnectionError == "I'm having trouble connecting to the server. Please check your connection and try again."
NoSessionToast == "No active session. Please refresh the page."
UploadFallbackToast == "Failed to upload files. Please try again."

-----------------------------------------------------------------------------
(* Utility functions *)

\* showToast(message, type): one toast; `arg` is the interpolated part of
\* the message (a file name, a count), "" when there is none.
Toast(message, arg, type) == [message |-> message, arg |-> arg, type |-> type]

\* The record of the step just taken.
Step(op, busy, files, input, resp) ==
    [op |-> op, busy |-> busy, files |-> files, input |-> input, resp |-> resp]

\* Mutant: switchScreen leaves the classes as they are.
switchScreen_NoSwitch(screen) ==
    UNCHANGED <<uploadScreenActive, chatScreenActive>>

\* switchScreen(screen)
switchScreen(screen) ==
    /\ uploadScreenActive' = (screen = "upload")
    /\ chatScreenActive' = (screen = "chat")

\* addMessage(role, content, context): the element appended to the
\* transcript.  The sources section exists only for a non-empty context:
\* its header shows context.length (`count`) and its list has one item
\* "source - Page page" per context entry, in the order of the context.
Message(role, content, hasContext, context) ==
    [kind |-> "message", role |-> role, text |-> content,
     count |-> IF hasContext /\ Len(context) > 0 THEN Len(context) ELSE 0,
     sources |-> IF hasContext /\ Len(context) > 0 THEN context ELSE <<>>]

\* showTypingIndicator(): the element with id 'typing-indicator'.
TypingIndicator ==
    [kind |-> "typing", role |-> "bot", text |-> "", count |-> 0, sources |-> <<>>]

\* Mutant: the typing indicator is never removed.
removeTypingIndicator_Noop(msgs) == msgs

\* removeTypingIndicator(): document.getElementById returns the first
\* element with the id, which is removed; nothing happens when there is none.
removeTypingIndicator(msgs) ==
    LET idx == { i \in 1..Len(msgs) : msgs[i].kind = "typing" } IN
    IF idx = {} THEN msgs
    ELSE LET k == CHOOSE i \in idx : \A j \in idx : i <= j IN
         SubSeq(msgs, 1, k - 1) \o SubSeq(msgs, k + 1, Len(msgs))

\* Mutant: the backend's welcome text is ignored.
showWelcomeMessage_AlwaysFallback(welcomeMessage) ==
    Message("bot", WelcomeFallback, FALSE, <<>>)

\* showWelcomeMessage(files, welcomeMessage): the bot message it appends.
showWelcomeMessage(welcomeMessage) ==
    Message("bot", IF Truthy(welcomeMessage) THEN welcomeMessage ELSE WelcomeFallback,
            FALSE, <<>>)

\* Mutant: the size check is missing.
FileErrors_TypeOnly(file) ==
    IF file.type # PdfType
    THEN << Toast("Only PDF files are allowed", file.name, "error") >>
    ELSE << >>

\* Mutant: a file is reported once, with the first rule it breaks.
FileErrors_FirstOnly(file) ==
    IF file.type # PdfType
    THEN << Toast("Only PDF files are allowed", file.name, "error") >>
    ELSE IF file.size > MAX_FILE_SIZE
    THEN << Toast("File size exceeds 10 MB limit", file.name, "error") >>
    ELSE << >>

\* validateFiles(files): the error list, in file order, type error first.
FileErrors(file) ==
    (IF file.type # PdfType
        THEN << Toast("Only PDF files are allowed", file.name, "error") >>
        ELSE << >>)
    \o
    (IF file.size > MAX_FILE_SIZE
        THEN << Toast("File size exceeds 10 MB limit", file.name, "error") >>
        ELSE << >>)

RECURSIVE validateFiles(_)
validateFiles(files) ==
    IF files = << >> THEN << >>
    ELSE FileErrors(Head(files)) \o validateFiles(Tail(files))

-----------------------------------------------------------------------------
(* The page after construction *)

\* The DOM as index.html delivers it and the `state` object as app.js
\* creates it: upload screen shown, nothing processing, empty transcript.
FreshPage ==
    /\ isProcessing' = FALSE
    /\ currentFiles' = << >>
    /\ switchScreen("upload")
    /\ uploadIdleHidden' = FALSE
    /\ uploadProcessingHidden' = TRUE
    /\ pointerEvents' = "auto"
    /\ progressFill' = 0
    /\ progressInterval' = << >>
    /\ chatMessages' = << >>
    /\ messageInput' = EmptyInput
    /\ sendBtnDisabled' = FALSE
    /\ overlayHidden' = TRUE
    /\ requests' = << >>
    /\ timers' = << >>

\* Mutant: initializeSession does not look into the storage.
initializeApp_AlwaysCreate(storage) ==
    /\ sessionId' = Null
    /\ initPending' = TRUE
    /\ toasts' = << >>

\* initializeApp / initializeSession up to the first await: a stored id is
\* taken over at once, otherwise POST /session/init is issued.
initializeApp(storage) ==
    IF Truthy(storage)
    THEN /\ sessionId' = storage
         /\ initPending' = FALSE
         /\ toasts' = << Toast("Welcome to Smart Tutor AI!", "", "success") >>
    ELSE /\ sessionId' = Null
         /\ initPending' = TRUE
         /\ toasts' = << >>

\* A tab that is not open: it has no sessionStorage and no page.
ClosedTab == [open |-> FALSE, stored |-> Null, sessionId |-> Null, initPending |-> FALSE]

Init ==
    /\ sessionId = Null
    /\ isProcessing = FALSE
    /\ currentFiles = << >>
    /\ stored = Null
    /\ uploadScreenActive = TRUE
    /\ chatScreenActive = FALSE
    /\ uploadIdleHidden = FALSE
    /\ uploadProcessingHidden = TRUE
    /\ pointerEvents = "auto"
    /\ progressFill = 0
    /\ progressInterval = << >>
    /\ chatMessages = << >>
    /\ messageInput = EmptyInput
    /\ sendBtnDisabled = FALSE
    /\ overlayHidden = TRUE
    /\ initPending = TRUE
    /\ requests = << >>
    /\ timers = << >>
    /\ otherTab = ClosedTab
    /\ toasts = << >>
    /\ last = Step("load", FALSE, << >>, EmptyInput, NoResponse)

-----------------------------------------------------------------------------
(* Session initialization *)

\* The session_id of a 2xx init response: the backend creates a session of
\* its own for every init request, with an id no open tab holds in its
\* storage.  Which unused id it is makes no difference to the client.
data_session_id ==
    LET inUse == {stored, otherTab.stored} IN
    IF "abc123" \notin inUse THEN "abc123" ELSE "xyz789"

\* initializeSession after the init fetch: a 2xx response with a session id.
InitSucceeds ==
    /\ UNCHANGED otherTab
    /\ initPending
    /\ initPending' = FALSE
    /\ sessionId' = data_session_id
    /\ stored' = data_session_id
    /\ toasts' = << Toast("Welcome to Smart Tutor AI!", "", "success") >>
    /\ last' = Step("init", isProcessing, << >>, EmptyInput,
                    Response(TRUE, "", Null, Null, FALSE, << >>))
    /\ UNCHANGED <<isProcessing, currentFiles, uploadScreenActive, chatScreenActive,
                   uploadIdleHidden, uploadProcessingHidden, pointerEvents,
                   progressFill, progressInterval, chatMessages, messageInput,
                   sendBtnDisabled, overlayHidden, requests, timers>>

\* initializeSession after the init fetch: a non-2xx response or no response.
InitFails ==
    /\ UNCHANGED otherTab
    /\ initPending
    /\ initPending' = FALSE
    /\ toasts' = << Toast("Failed to connect to server. Please check if the backend is running.", "", "error"),
                    Toast("Failed to initialize. Please refresh the page.", "", "error") >>
    /\ last' = Step("init", isProcessing, << >>, EmptyInput, NoResponse)
    /\ UNCHANGED <<sessionId, stored,
                   isProcessing, currentFiles, uploadScreenActive, chatScreenActive,
                   uploadIdleHidden, uploadProcessingHidden, pointerEvents,
                   progressFill, progressInterval, chatMessages, messageInput,
                   sendBtnDisabled, overlayHidden, requests, timers>>

-----------------------------------------------------------------------------
(* Upload workflow *)

\* The fetch issued by uploadFiles.
UploadRequest(files) ==
    [kind |-> "upload", session |-> sessionId, files |-> files, query |-> ""]

\* Mutant: handleFileUpload does not look at the busy flag.
uploadEntryGuard_Never == FALSE

\* handleFileUpload line 280
uploadEntryGuard == isProcessing

\* Mutant: the batch is taken whatever validateFiles reports.
validationFailed_Never(errors) == FALSE

\* handleFileUpload line 284
validationFailed(errors) == Len(errors) > 0

\* Mutant: the API functions do not check that a session id is held.
noSession_Never == FALSE

\* uploadFiles line 170 / sendChatMessage line 209
noSession == ~Truthy(sessionId)

\* handleFileUpload(files) up to the await of the upload fetch; when
\* uploadFiles returns false at once (no session id), up to its end.
handleFileUpload(files, op) ==
    /\ last' = Step(op, isProcessing, files, messageInput, NoResponse)
    /\ IF uploadEntryGuard
       THEN /\ toasts' = << >>
            /\ UNCHANGED pageVars
       ELSE LET errors == validateFiles(files) IN
            IF validationFailed(errors)
            THEN /\ toasts' = errors
                 /\ UNCHANGED pageVars
            ELSE /\ currentFiles' = files
                 /\ uploadIdleHidden' = TRUE
                 /\ uploadProcessingHidden' = FALSE
                 /\ pointerEvents' = "none"
                 /\ IF noSession
                    THEN \* result is false: the success path runs with it
                         /\ isProcessing' = FALSE
                         /\ progressInterval' = << >>
                         /\ progressFill' = 100
                         /\ toasts' = << Toast(NoSessionToast, "", "error"),
                                         Toast("Successfully processed file(s)",
                                               ToString(Len(files)), "success") >>
                         /\ timers' = Append(timers, [welcome_message |-> Null])
                         /\ UNCHANGED requests
                    ELSE /\ isProcessing' = TRUE
                         /\ progressInterval' = << 0 >>
                         /\ requests' = Append(requests, UploadRequest(files))
                         /\ toasts' = << >>
                         /\ UNCHANGED <<progressFill, timers>>
                 /\ UNCHANGED <<sessionId, stored, uploadScreenActive, chatScreenActive,
                                chatMessages, messageInput, sendBtnDisabled,
                                overlayHidden, initPending>>

\* fileInput 'change' listener
FileInputChange ==
    /\ UNCHANGED otherTab
    /\ uploadScreenActive
    /\ Len(timers) < MaxTimers
    /\ \E files \in Batches :
        IF Len(files) > 0
        THEN handleFileUpload(files, "change")
        ELSE /\ last' = Step("change", isProcessing, files, messageInput, NoResponse)
             /\ toasts' = << >>
             /\ UNCHANGED pageVars

\* uploadZone 'drop' listener
Drop ==
    /\ UNCHANGED otherTab
    /\ uploadScreenActive
    /\ Len(timers) < MaxTimers
    /\ \E files \in Batches :
        IF Len(files) > 0 /\ ~isProcessing
        THEN handleFileUpload(files, "drop")
        ELSE /\ last' = Step("drop", isProcessing, files, messageInput, NoResponse)
             /\ toasts' = << >>
             /\ UNCHANGED pageVars

\* The setInterval callback of handleFileUpload (lines 299-303).
ProgressTick ==
    /\ UNCHANGED otherTab
    /\ progressInterval # << >>
    /\ \E r \in RandomSteps :
        LET sum == progressInterval[1] + r
            progress == IF sum > 90 THEN 90 ELSE sum
        IN /\ progressInterval' = << progress >>
           /\ progressFill' = progress
    /\ toasts' = << >>
    /\ last' = Step("tick", isProcessing, << >>, messageInput, NoResponse)
    /\ UNCHANGED <<sessionId, isProcessing, currentFiles, stored, uploadScreenActive,
                   chatScreenActive, uploadIdleHidden, uploadProcessingHidden,
                   pointerEvents, chatMessages, messageInput, sendBtnDisabled,
                   overlayHidden, initPending, requests, timers>>

\* requests without its i-th element
Without(seq, i) == SubSeq(seq, 1, i - 1) \o SubSeq(seq, i + 1, Len(seq))

\* handleFileUpload after the upload fetch, success path (lines 309-324, 340).
uploadSucceeded(resp) ==
    /\ progressInterval' = << >>
    /\ progressFill' = 100
    /\ toasts' = << Toast("Successfully processed file(s)",
                          ToString(Len(currentFiles)), "success") >>
    /\ timers' = Append(timers, [welcome_message |-> resp.welcome_message])
    /\ isProcessing' = FALSE
    /\ UNCHANGED <<uploadIdleHidden, uploadProcessingHidden, pointerEvents>>

\* Mutant: the catch path leaves the upload zone unclickable.
uploadFailed_NoZoneReset(resp) ==
    /\ progressInterval' = << >>
    /\ toasts' = << Toast(IF resp.message # "" THEN resp.message ELSE UploadFallbackToast,
                          "", "error") >>
    /\ uploadIdleHidden' = FALSE
    /\ uploadProcessingHidden' = TRUE
    /\ progressFill' = 0
    /\ isProcessing' = FALSE
    /\ UNCHANGED <<timers, pointerEvents>>

\* Mutant: the busy flag is reset on the success path only (no finally).
uploadFailed_NoFinally(resp) ==
    /\ progressInterval' = << >>
    /\ toasts' = << Toast(IF resp.message # "" THEN resp.message ELSE UploadFallbackToast,
                          "", "error") >>
    /\ uploadIdleHidden' = FALSE
    /\ uploadProcessingHidden' = TRUE
    /\ pointerEvents' = "auto"
    /\ progressFill' = 0
    /\ UNCHANGED <<timers, isProcessing>>

\* handleFileUpload after the upload fetch, catch path (lines 326-340).
uploadFailed(resp) ==
    /\ progressInterval' = << >>
    /\ toasts' = << Toast(IF resp.message # "" THEN resp.message ELSE UploadFallbackToast,
                          "", "error") >>
    /\ uploadIdleHidden' = FALSE
    /\ uploadProcessingHidden' = TRUE
    /\ pointerEvents' = "auto"
    /\ progressFill' = 0
    /\ isProcessing' = FALSE
    /\ UNCHANGED timers

\* The upload fetch completes and handleFileUpload resumes.
UploadCompletes ==
    \E i \in 1..Len(requests) :
      /\ UNCHANGED otherTab
      /\ requests[i].kind = "upload"
      /\ requests' = Without(requests, i)
      /\ \E resp \in UploadResponses :
           /\ IF resp.ok THEN uploadSucceeded(resp) ELSE uploadFailed(resp)
           /\ last' = Step("uploadDone", isProcessing, requests[i].files, messageInput, resp)
      /\ UNCHANGED <<sessionId, currentFiles, stored, uploadScreenActive, chatScreenActive,
                     chatMessages, messageInput, sendBtnDisabled, overlayHidden,
                     initPending>>

\* The setTimeout callback of handleFileUpload (lines 316-324).
SwitchTimerFires ==
    /\ UNCHANGED otherTab
    /\ timers # << >>
    /\ timers' = Tail(timers)
    /\ switchScreen("chat")
    /\ chatMessages' = Append(chatMessages, showWelcomeMessage(Head(timers).welcome_message))
    /\ toasts' = << >>
    /\ last' = Step("timer", isProcessing, currentFiles, messageInput,
                    Response(TRUE, "", Head(timers).welcome_message, Null, FALSE, << >>))
    /\ UNCHANGED <<sessionId, isProcessing, currentFiles, stored, uploadIdleHidden,
                   uploadProcessingHidden, pointerEvents, progressFill, progressInterval,
                   messageInput, sendBtnDisabled, overlayHidden, initPending,
                   requests>>

-----------------------------------------------------------------------------
(* Chat workflow *)

\* Mutant: the chat request is sent without the session id.
ChatRequest_Anonymous(message) ==
    [kind |-> "chat", session |-> Null, files |-> << >>, query |-> message.core]

\* The fetch issued by sendChatMessage.
ChatRequest(message) ==
    [kind |-> "chat", session |-> sessionId, files |-> << >>, query |-> message.core]

\* Mutant: handleSendMessage does not look at the busy flag.
sendEntryGuard_NoBusyCheck(message) == Length(message) = 0

\* Mutant: the length limit is off by one.
messageTooLong_OffByOne(message) == Length(message) > MAX_MESSAGE_LENGTH + 1

\* handleSendMessage line 468
sendEntryGuard(message) == Length(message) = 0 \/ isProcessing

\* handleSendMessage line 471
messageTooLong(message) == Length(message) > MAX_MESSAGE_LENGTH

\* Mutant: the answer is shown without testing that there is one.
botReply_NoFallback(resp) ==
    Message("bot", resp.answer, resp.hasContext, resp.context)

\* handleSendMessage lines 498-502: the bot message for a response.
botReply(resp) ==
    IF Truthy(resp.answer)
    THEN Message("bot", resp.answer, resp.hasContext, resp.context)
    ELSE Message("bot", AnswerFallback, FALSE, << >>)

\* handleSendMessage lines 506-509: the bot message for a failure.
errorReply == Message("bot", ConnectionError, FALSE, << >>)

\* handleSendMessage() up to the await of the chat fetch; when
\* sendChatMessage returns null at once (no session id), up to its end.
handleSendMessage(op) ==
    LET message == Trim(messageInput) IN
    /\ last' = Step(op, isProcessing, << >>, messageInput, NoResponse)
    /\ IF sendEntryGuard(message)
       THEN /\ toasts' = << >>
            /\ UNCHANGED pageVars
       ELSE IF messageTooLong(message)
       THEN /\ toasts' = << Toast("Message exceeds characters",
                                  ToString(MAX_MESSAGE_LENGTH), "warning") >>
            /\ UNCHANGED pageVars
       ELSE LET sent == chatMessages \o << Message("user", message.core, FALSE, << >>),
                                           TypingIndicator >>
            IN /\ messageInput' = EmptyInput
               /\ IF noSession
                  THEN \* response is null: the fallback reply is appended at once
                       /\ chatMessages' = Append(removeTypingIndicator(sent),
                                                 botReply(NoResponse))
                       /\ toasts' = << Toast(NoSessionToast, "", "error") >>
                       /\ isProcessing' = FALSE
                       /\ sendBtnDisabled' = FALSE
                       /\ UNCHANGED requests
                  ELSE /\ chatMessages' = sent
                       /\ toasts' = << >>
                       /\ isProcessing' = TRUE
                       /\ sendBtnDisabled' = TRUE
                       /\ requests' = Append(requests, ChatRequest(message))
               /\ UNCHANGED <<sessionId, currentFiles, stored, uploadScreenActive,
                              chatScreenActive, uploadIdleHidden, uploadProcessingHidden,
                              pointerEvents, progressFill, progressInterval,
                              overlayHidden, initPending, timers>>

\* messageInput 'input' listener: the user edits the text.
TypeInput ==
    /\ UNCHANGED otherTab
    /\ chatScreenActive
    /\ \E v \in Inputs : messageInput' = v
    /\ toasts' = << >>
    /\ last' = Step("type", isProcessing, << >>, messageInput', NoResponse)
    /\ UNCHANGED <<sessionId, isProcessing, currentFiles, stored, uploadScreenActive,
                   chatScreenActive, uploadIdleHidden, uploadProcessingHidden,
                   pointerEvents, progressFill, progressInterval, chatMessages,
                   sendBtnDisabled, overlayHidden, initPending, requests, timers>>

\* sendBtn 'click' listener
SendClick ==
    /\ UNCHANGED otherTab
    /\ chatScreenActive
    /\ isProcessing \/ Len(chatMessages) + 2 <= MaxTranscript
    /\ handleSendMessage("click")

\* messageInput 'keydown' listener, Enter without Shift
EnterKey ==
    /\ UNCHANGED otherTab
    /\ chatScreenActive
    /\ isProcessing \/ Len(chatMessages) + 2 <= MaxTranscript
    /\ handleSendMessage("enter")

\* handleSendMessage after the chat fetch (lines 494-516).
ChatCompletes ==
    \E i \in 1..Len(requests) :
      /\ UNCHANGED otherTab
      /\ requests[i].kind = "chat"
      /\ requests' = Without(requests, i)
      /\ \E resp \in ChatResponses :
           /\ IF resp.ok
              THEN /\ chatMessages' = Append(removeTypingIndicator(chatMessages),
                                             botReply(resp))
                   /\ toasts' = << >>
              ELSE /\ chatMessages' = Append(removeTypingIndicator(chatMessages),
                                             errorReply)
                   /\ toasts' = << Toast("Failed to send message. Please try again.",
                                         "", "error") >>
           /\ last' = Step("chatDone", isProcessing, << >>,
                           [EmptyInput EXCEPT !.core = requests[i].query], resp)
      /\ isProcessing' = FALSE
      /\ sendBtnDisabled' = FALSE
      /\ UNCHANGED <<sessionId, currentFiles, stored, uploadScreenActive, chatScreenActive,
                     uploadIdleHidden, uploadProcessingHidden, pointerEvents,
                     progressFill, progressInterval, messageInput, overlayHidden,
                     initPending, timers>>

\* clearChat(), the user confirming the dialog.  Declining it runs no
\* statement: it is a stuttering step.
ClearChat ==
    /\ UNCHANGED otherTab
    /\ chatScreenActive
    /\ chatMessages' = << >>
    /\ toasts' = << Toast("Chat cleared", "", "info") >>
    /\ last' = Step("clear", isProcessing, << >>, messageInput, NoResponse)
    /\ UNCHANGED <<sessionId, isProcessing, currentFiles, stored, uploadScreenActive,
                   chatScreenActive, uploadIdleHidden, uploadProcessingHidden,
                   pointerEvents, progressFill, progressInterval, messageInput,
                   sendBtnDisabled, overlayHidden, initPending, requests, timers>>

-----------------------------------------------------------------------------
(* Session reset and page reload *)

\* Mutant: the reloaded page keeps the transcript and the screen.
reload_KeepsPage(storage) ==
    /\ initializeApp(storage)
    /\ UNCHANGED <<isProcessing, currentFiles, uploadScreenActive, chatScreenActive,
                   uploadIdleHidden, uploadProcessingHidden, pointerEvents,
                   progressFill, progressInterval, chatMessages, messageInput,
                   sendBtnDisabled, overlayHidden, requests, timers>>

\* window.location.reload(): the page context, with its pending fetches and
\* timers, is discarded; sessionStorage survives; initializeApp runs again.
reload(storage) ==
    /\ FreshPage
    /\ initializeApp(storage)

\* startNewSession(), the user answering the confirm dialog
StartNewSession ==
    /\ UNCHANGED otherTab
    /\ chatScreenActive
    /\ \E confirmed \in BOOLEAN :
        IF confirmed
        THEN /\ stored' = Null
             /\ reload(Null)
             /\ last' = Step("newSession", isProcessing, << >>, EmptyInput, NoResponse)
        ELSE /\ toasts' = << >>
             /\ last' = Step("newSessionDeclined", isProcessing, << >>, messageInput,
                             NoResponse)
             /\ UNCHANGED pageVars

\* The user reloads the tab.
Reload ==
    /\ UNCHANGED otherTab
    /\ UNCHANGED stored
    /\ reload(stored)
    /\ last' = Step("reload", isProcessing, << >>, EmptyInput, NoResponse)

-----------------------------------------------------------------------------

Next ==
    \/ InitSucceeds
    \/ InitFails
    \/ FileInputChange
    \/ Drop
    \/ ProgressTick
    \/ UploadCompletes
    \/ SwitchTimerFires
    \/ TypeInput
    \/ SendClick
    \/ EnterKey
    \/ ChatCompletes
    \/ ClearChat
    \/ StartNewSession
    \/ Reload

Spec == Init /\ [][Next]_vars

-----------------------------------------------------------------------------
(* A second tab *)

\* The same client running in a second tab of the browser, reduced to its
\* session state.  sessionStorage belongs to the tab: a new tab starts with
\* an empty one, and closing the tab discards it.

\* Mutant: the storage is shared by the tabs of the browser (localStorage).
newTabStorage_Shared == stored

\* sessionStorage.getItem(CONFIG.SESSION_STORAGE_KEY) in a tab just opened.
newTabStorage == Null

\* initializeSession in the other tab, up to the first await.
otherTabLoads(storage) ==
    IF Truthy(storage)
    THEN [open |-> TRUE, stored |-> storage, sessionId |-> storage, initPending |-> FALSE]
    ELSE [open |-> TRUE, stored |-> Null, sessionId |-> Null, initPending |-> TRUE]

\* A step of the other tab: this tab's page is untouched.
otherTabStep(op) ==
    /\ toasts' = << >>
    /\ last' = Step(op, isProcessing, << >>, messageInput, NoResponse)
    /\ UNCHANGED pageVars

\* The user opens the application in a new tab.
OtherTabOpens ==
    /\ ~otherTab.open
    /\ otherTab' = otherTabLoads(newTabStorage)
    /\ otherTabStep("tabOpen")

\* The other tab's init fetch returns a session id.
OtherTabInitSucceeds ==
    /\ otherTab.open /\ otherTab.initPending
    /\ otherTab' = [otherTab EXCEPT !.stored = data_session_id,
                                    !.sessionId = data_session_id,
                                    !.initPending = FALSE]
    /\ otherTabStep("tabInit")

\* The other tab's init fetch fails.
OtherTabInitFails ==
    /\ otherTab.open /\ otherTab.initPending
    /\ otherTab' = [otherTab EXCEPT !.initPending = FALSE]
    /\ otherTabStep("tabInitFailed")

\* The user refreshes the other tab.
OtherTabReloads ==
    /\ otherTab.open
    /\ otherTab' = otherTabLoads(otherTab.stored)
    /\ otherTabStep("tabReload")

\* startNewSession() confirmed in the other tab.
OtherTabStartsNewSession ==
    /\ otherTab.open
    /\ otherTab' = otherTabLoads(Null)
    /\ otherTabStep("tabNewSession")

\* The user closes the other tab.
OtherTabCloses ==
    /\ otherTab.open
    /\ otherTab' = ClosedTab
    /\ otherTabStep("tabClose")

TabsNext ==
    \/ Next
    \/ OtherTabOpens
    \/ OtherTabInitSucceeds
    \/ OtherTabInitFails
    \/ OtherTabReloads
    \/ OtherTabStartsNewSession
    \/ OtherTabCloses

TabsSpec == Init /\ [][TabsNext]_vars

TypeOK ==
    /\ isProcessing \in BOOLEAN
    /\ uploadScreenActive \in BOOLEAN
    /\ chatScreenActive \in BOOLEAN
    /\ Len(timers) <= MaxTimers

-----------------------------------------------------------------------------
(* Vocabulary of the properties *)

UploadTriggers == {"change", "drop"}
SendTriggers == {"click", "enter"}

\* The batch holds a file that is not a PDF or is larger than 10 MiB.
HasOffendingFile(files) ==
    \E i \in 1..Len(files) :
        \/ files[i].type # "application/pdf"
        \/ files[i].size > 10485760

\* The files of a batch that are not PDFs, and those larger than 10 MiB.
NonPdfFiles(files) == { i \in 1..Len(files) : files[i].type # "application/pdf" }
OversizeFiles(files) == { i \in 1..Len(files) : files[i].size > 10485760 }

\* A non-empty batch of PDFs of at most 10 MiB each.
ValidBatch(files) == Len(files) > 0 /\ ~HasOffendingFile(files)

\* The text has no character besides whitespace.
BlankText(v) == v.len = 0

\* The text, without its surrounding whitespace, has more than 2000 characters.
OverLongText(v) == v.len > 2000

UploadsInFlight(reqs) == { i \in 1..Len(reqs) : reqs[i].kind = "upload" }
ChatsInFlight(reqs) == { i \in 1..Len(reqs) : reqs[i].kind = "chat" }

WarningToast == Toast("Message exceeds characters", "2000", "warning")

\* The messages of a transcript (its elements other than the typing indicator).
MessagesIn(msgs) == { i \in 1..Len(msgs) : msgs[i].kind = "message" }

\* The citations a response carries: its context entries, none when the
\* response has no context field.
CitationsOf(resp) == IF resp.hasContext THEN resp.context ELSE << >>

\* Steps that load the page anew (after the first load, which is Init).
LoadSteps == {"reload", "newSession"}

\* Steps taken by the other tab.
OtherTabSteps == {"tabOpen", "tabInit", "tabInitFailed", "tabReload",
                  "tabNewSession", "tabClose"}

\* The session initialization of this page load has failed.
InitFailed == ~initPending /\ sessionId = Null

-----------------------------------------------------------------------------
(* C1 *)

\* C1: in every reachable state at most one processing request (upload or
\* chat) is in flight: never two uploads, never two chats, never an upload
\* together with a chat.
C1_AtMostOneProcessingRequest ==
    /\ Cardinality(UploadsInFlight(requests)) <= 1
    /\ Cardinality(ChatsInFlight(requests)) <= 1
    /\ ~(UploadsInFlight(requests) # {} /\ ChatsInFlight(requests) # {})

\* An upload is in flight and the user has just pressed Enter on a
\* sendable message: the send was refused.
C1_Witness ==
    /\ UploadsInFlight(requests) # {}
    /\ last.op = "enter"
    /\ ~BlankText(last.input) /\ ~OverLongText(last.input)

-----------------------------------------------------------------------------
(* C2 *)

\* C2: an upload trigger whose batch holds an offending file issues no
\* upload request, schedules no screen switch and leaves UploadScreen active.
C2_InvalidBatchUploadsNothing ==
    [][ (last'.op \in UploadTriggers /\ HasOffendingFile(last'.files))
        => /\ requests' = requests
           /\ timers' = timers
           /\ uploadScreenActive' /\ ~chatScreenActive' ]_vars

\* A batch of one valid and one offending file was selected while idle and
\* was rejected with a notification.
C2_Witness ==
    /\ last.op \in UploadTriggers
    /\ ~last.busy
    /\ Len(last.files) = 2
    /\ \E i \in 1..2 : ValidBatch(<< last.files[i] >>)
    /\ HasOffendingFile(last.files)
    /\ toasts # << >>
    /\ requests = << >>

-----------------------------------------------------------------------------
(* C3 *)

\* C3 as stated: every accepted upload action (valid batch, busy flag false)
\* issues exactly one upload request; an upload trigger while the busy flag
\* is true changes nothing and shows nothing; no other step issues an
\* upload request.
C3_OneRequestPerAcceptedUpload ==
    [][ IF last'.op \in UploadTriggers
        THEN IF isProcessing
             THEN UNCHANGED pageVars /\ toasts' = << >>
             ELSE ValidBatch(last'.files)
                  => /\ Len(requests') = Len(requests) + 1
                     /\ requests'[Len(requests')].kind = "upload"
                     /\ requests'[Len(requests')].files = last'.files
        ELSE Cardinality(UploadsInFlight(requests'))
                <= Cardinality(UploadsInFlight(requests)) ]_vars

\* C3 amended: an accepted upload action issues exactly one upload request
\* when a session id is held and none when no session id is held; an upload
\* trigger while the busy flag is true changes nothing and shows nothing; no
\* other step issues an upload request.
C3_OneRequestPerAcceptedUploadWithSession ==
    [][ IF last'.op \in UploadTriggers
        THEN IF isProcessing
             THEN UNCHANGED pageVars /\ toasts' = << >>
             ELSE ValidBatch(last'.files)
                  => IF sessionId \in SessionIds
                     THEN /\ Len(requests') = Len(requests) + 1
                          /\ requests'[Len(requests')].kind = "upload"
                          /\ requests'[Len(requests')].files = last'.files
                          /\ SubSeq(requests', 1, Len(requests)) = requests
                     ELSE requests' = requests
        ELSE Cardinality(UploadsInFlight(requests'))
                <= Cardinality(UploadsInFlight(requests)) ]_vars

\* A valid batch was selected through the file input while an upload was
\* in flight, and was dropped.
C3_Witness ==
    /\ last.op = "change"
    /\ last.busy
    /\ ValidBatch(last.files)
    /\ Cardinality(UploadsInFlight(requests)) = 1

-----------------------------------------------------------------------------
(* C4 *)

\* C4 as stated: a submitted message of more than 2000 characters issues no
\* chat request, is not appended to the transcript, and raises a warning
\* notification.
C4_OverLongNeverSentAlwaysWarned ==
    [][ (last'.op \in SendTriggers /\ OverLongText(messageInput))
        => /\ requests' = requests
           /\ chatMessages' = chatMessages
           /\ toasts' = << WarningToast >> ]_vars

\* C4 amended: a submitted message of more than 2000 characters (after
\* trimming) issues no chat request and is not appended to the transcript;
\* it raises a warning notification when the busy flag is false and is
\* ignored without a notification when the busy flag is true.
C4_OverLongNeverSentWarnedWhenIdle ==
    [][ (last'.op \in SendTriggers /\ OverLongText(messageInput))
        => /\ requests' = requests
           /\ chatMessages' = chatMessages
           /\ messageInput' = messageInput
           /\ toasts' = IF isProcessing THEN << >> ELSE << WarningToast >> ]_vars

\* A message of 2001 characters was submitted while idle and the warning
\* was raised.
C4_Witness ==
    /\ last.op \in SendTriggers
    /\ ~last.busy
    /\ last.input.len = 2001
    /\ toasts = << WarningToast >>

-----------------------------------------------------------------------------
(* C5 *)

\* C5: a submitted message that is empty after trimming issues no chat
\* request, appends nothing to the transcript and leaves the busy flag as
\* it was.
C5_BlankNeverSent ==
    [][ (last'.op \in SendTriggers /\ BlankText(messageInput))
        => /\ requests' = requests
           /\ chatMessages' = chatMessages
           /\ isProcessing' = isProcessing
           /\ toasts' = << >> ]_vars

\* A message of whitespace only was submitted while idle, with a session held.
C5_Witness ==
    /\ last.op \in SendTriggers
    /\ ~last.busy
    /\ last.input.lead + last.input.trail > 0
    /\ BlankText(last.input)
    /\ sessionId \in SessionIds
    /\ chatScreenActive

-----------------------------------------------------------------------------
(* C6 *)

\* C6: when an upload request returns a success response, handleFileUpload
\* shows one success notification and schedules the screen switch with the
\* response's welcome_message, changing neither screen nor transcript yet;
\* when the switch runs, ChatScreen becomes the only active screen and
\* exactly one bot message is appended, whose text is that welcome_message,
\* or the fixed fallback when there was none; if the switch leaves
\* UploadScreen, the welcome message is the transcript's only message.
C6_UploadSuccessWelcomes ==
    [][ /\ (last'.op = "uploadDone" /\ last'.resp.ok)
           => /\ Len(toasts') = 1
              /\ toasts'[1].type = "success"
              /\ timers' = Append(timers,
                                  [welcome_message |-> last'.resp.welcome_message])
              /\ UNCHANGED <<uploadScreenActive, chatScreenActive, chatMessages>>
        /\ (last'.op = "timer")
           => LET w == Head(timers).welcome_message IN
              /\ chatScreenActive' /\ ~uploadScreenActive'
              /\ chatMessages' = Append(chatMessages,
                    [kind |-> "message", role |-> "bot",
                     text |-> IF w = Null THEN WelcomeFallback ELSE w,
                     count |-> 0, sources |-> << >>])
              /\ uploadScreenActive => Len(chatMessages') = 1 ]_vars

\* The switch after a successful upload has just run: ChatScreen is active
\* and the transcript is the backend's welcome message alone.
C6_Witness ==
    /\ last.op = "timer"
    /\ sessionId \in SessionIds
    /\ chatScreenActive
    /\ Len(chatMessages) = 1
    /\ chatMessages[1].role = "bot"
    /\ chatMessages[1].text = "Ask me anything about Chapter 3"

-----------------------------------------------------------------------------
(* C7 *)

\* C7: when an upload request fails, handleFileUpload shows one error
\* notification with the failure's message, puts the upload UI back in its
\* idle visual state (idle panel shown, processing panel hidden, zone
\* clickable, progress 0), leaves the active screen and the transcript as
\* they were, schedules no screen switch and issues no new request.
C7_UploadFailureReverts ==
    [][ (last'.op = "uploadDone" /\ ~last'.resp.ok)
        => /\ toasts' = << Toast(last'.resp.message, "", "error") >>
           /\ ~uploadIdleHidden'
           /\ uploadProcessingHidden'
           /\ pointerEvents' = "auto"
           /\ progressFill' = 0
           /\ UNCHANGED <<uploadScreenActive, chatScreenActive, chatMessages, timers>>
           /\ Len(requests') = Len(requests) - 1
           /\ UploadsInFlight(requests') = {} ]_vars

\* An upload has just failed with the backend's detail while UploadScreen
\* was active.
C7_Witness ==
    /\ last.op = "uploadDone"
    /\ ~last.resp.ok
    /\ last.resp.message = "Unsupported file"
    /\ uploadScreenActive
    /\ timers = << >>

-----------------------------------------------------------------------------
(* C8 *)

\* C8: when a chat request fails, the transcript afterwards ends with the
\* user message of that send followed immediately by the fixed error bot
\* message without citations; no typing indicator is left and one error
\* notification is raised.
C8_ChatFailureKeepsUserMessage ==
    [][ (last'.op = "chatDone" /\ ~last'.resp.ok)
        => LET n == Len(chatMessages') IN
           /\ n >= 2
           /\ chatMessages'[n - 1] =
                [kind |-> "message", role |-> "user",
                 text |-> last'.input.core, count |-> 0, sources |-> << >>]
           /\ chatMessages'[n] =
                [kind |-> "message", role |-> "bot",
                 text |-> ConnectionError, count |-> 0, sources |-> << >>]
           /\ \A i \in 1..n : chatMessages'[i].kind # "typing"
           /\ Len(toasts') = 1
           /\ toasts'[1].type = "error" ]_vars

-----------------------------------------------------------------------------
(* C9 *)

\* C9: the bot reply appended for a send comes after the user message of
\* that send, which is still in the transcript before it.
C9_ReplyAfterItsUserMessage ==
    [][ (last'.op = "chatDone")
        => LET n == Len(chatMessages') IN
           /\ n >= 2
           /\ chatMessages'[n].kind = "message"
           /\ chatMessages'[n].role = "bot"
           /\ \E i \in 1..(n - 1) :
                /\ chatMessages'[i].role = "user"
                /\ chatMessages'[i].text = last'.input.core ]_vars

-----------------------------------------------------------------------------
(* C10 *)

\* Every issued request eventually completes.
FairSpec == Spec /\ WF_vars(UploadCompletes) /\ WF_vars(ChatCompletes)

\* C10: whenever the busy flag is true it eventually becomes false; the
\* completion of an upload or chat request sets it to false on success and
\* on failure alike; and with the flag false and a session held, a valid
\* send or upload trigger is accepted (its request is issued).
C10_BusyFlagAlwaysClears ==
    /\ isProcessing ~> ~isProcessing
    /\ [][ /\ last'.op \in {"uploadDone", "chatDone"} => ~isProcessing'
           /\ ( /\ ~isProcessing
                /\ sessionId \in SessionIds
                /\ \/ last'.op \in UploadTriggers /\ ValidBatch(last'.files)
                   \/ /\ last'.op \in SendTriggers
                      /\ ~BlankText(messageInput) /\ ~OverLongText(messageInput) )
              => /\ Len(requests') = Len(requests) + 1
                 /\ isProcessing' ]_vars

\* A chat request has just failed and the busy flag is false again.
C10_Witness ==
    /\ last.op = "chatDone"
    /\ ~last.resp.ok
    /\ last.busy
    /\ ~isProcessing

-----------------------------------------------------------------------------
(* C11 *)

\* C11: initializeSession is get-or-create.  A page load that finds an id
\* in the tab's storage issues no init request and holds that same id, the
\* storage being left as it was; a page load that finds none issues the
\* init request, and no other step issues one (one per page load); when the
\* init request succeeds, the returned id is stored and held.
C11_GetOrCreateSession ==
    [][ /\ (last'.op = "reload" /\ stored # Null)
            => /\ ~initPending'
               /\ sessionId' = stored
               /\ stored' = stored
        /\ (last'.op \in LoadSteps /\ stored' = Null)
            => /\ initPending'
               /\ sessionId' = Null
        /\ (initPending' /\ last'.op \notin LoadSteps)
            => initPending
        /\ (last'.op = "init" /\ last'.resp.ok)
            => /\ initPending /\ ~initPending'
               /\ sessionId' \in SessionIds
               /\ stored' = sessionId' ]_vars

\* The tab has just been refreshed with a stored id, which it holds again
\* without an init request.
C11_Witness ==
    /\ last.op = "reload"
    /\ stored \in SessionIds
    /\ sessionId = stored
    /\ ~initPending

-----------------------------------------------------------------------------
(* C12 *)

\* C12: a failed session initialization stores and holds no id and shows an
\* error notification; from then on, until the page is loaded anew, no init
\* request is issued again, no id is held, and no upload or chat request is
\* in flight.
C12_InitFailureIsFatal ==
    [][ /\ (last'.op = "init" /\ ~last'.resp.ok)
            => /\ InitFailed'
               /\ stored' = Null
               /\ \E i \in 1..Len(toasts') : toasts'[i].type = "error"
        /\ (InitFailed /\ last'.op \notin LoadSteps)
            => /\ InitFailed'
               /\ stored' = Null
        /\ InitFailed' => requests' = << >> ]_vars

\* After a failed initialization the user has submitted a sendable message
\* on ChatScreen: no request went out.
C12_Witness ==
    /\ InitFailed
    /\ last.op \in SendTriggers
    /\ ~BlankText(last.input) /\ ~OverLongText(last.input)
    /\ requests = << >>

-----------------------------------------------------------------------------
(* C13 *)

\* C13: within one page load the held session id is written only by
\* initializeSession, at most once, and never changes afterwards; a held id
\* equals the id in the tab's storage; every upload and chat request in
\* flight carries the held id, which is not null.
C13_SessionIdWrittenOnce ==
    /\ [][ (sessionId' # sessionId /\ last'.op \notin LoadSteps)
            => /\ last'.op = "init"
               /\ sessionId = Null ]_vars
    /\ [] /\ sessionId # Null => sessionId = stored
          /\ \A i \in 1..Len(requests) :
                /\ requests[i].session = sessionId
                /\ requests[i].session \in SessionIds

\* A chat request is in flight, carrying the id that the tab holds and stores.
C13_Witness ==
    /\ Len(requests) = 1
    /\ requests[1].kind = "chat"
    /\ requests[1].session = stored
    /\ stored \in SessionIds

-----------------------------------------------------------------------------
(* C14 *)

-----------------------------------------------------------------------------
(* C15 *)

\* C15: when the user confirms startNewSession, the stored session id is
\* cleared and the page is loaded anew: UploadScreen is the active screen,
\* the transcript is empty, the busy flag is false, no id is held and the
\* init request of the new page load is in flight; when the user declines,
\* the stored id, the held id, the active screen and the transcript are
\* unchanged.
C15_NewSessionResetsOrKeeps ==
    [][ /\ last'.op = "newSession"
            => /\ stored' = Null
               /\ sessionId' = Null
               /\ initPending'
               /\ uploadScreenActive' /\ ~chatScreenActive'
               /\ chatMessages' = << >>
               /\ ~isProcessing'
               /\ requests' = << >> /\ timers' = << >>
        /\ last'.op = "newSessionDeclined"
            => UNCHANGED <<stored, sessionId, uploadScreenActive, chatScreenActive,
                           chatMessages>> ]_vars

\* A new session has just been started while a request of the old page was
\* in flight.
C15_Witness ==
    /\ last.op = "newSession"
    /\ last.busy
    /\ stored = Null
    /\ initPending
    /\ uploadScreenActive

-----------------------------------------------------------------------------
(* C16 *)

\* C16: exactly one of UploadScreen and ChatScreen is active at any time;
\* for a given session the transition is one-directional: with a session id
\* stored and ChatScreen active, UploadScreen becomes active again only
\* through startNewSession, which replaces the stored id.
C16_ScreenOneDirectional ==
    /\ [] (uploadScreenActive # chatScreenActive)
    /\ [][ (chatScreenActive /\ stored \in SessionIds /\ uploadScreenActive')
            => /\ last'.op = "newSession"
               /\ stored' # stored ]_vars

-----------------------------------------------------------------------------
(* C17 *)

\* C17: in every reachable state the transcript is non-empty only if
\* ChatScreen is the active screen; a step that appends to the transcript
\* ends with ChatScreen active; and startNewSession, which returns to
\* UploadScreen, leaves the transcript empty.
C17_TranscriptOnlyOnChatScreen ==
    /\ [] (chatMessages # << >> => (chatScreenActive /\ ~uploadScreenActive))
    /\ [][ /\ Len(chatMessages') > Len(chatMessages) => chatScreenActive'
           /\ last'.op = "newSession"
               => (uploadScreenActive' /\ chatMessages' = << >>) ]_vars

\* ChatScreen is active and the transcript holds the welcome message, a
\* user message and the typing indicator.
C17_Witness ==
    /\ chatScreenActive
    /\ Len(chatMessages) = 3
    /\ chatMessages[2].role = "user"
    /\ chatMessages[3].kind = "typing"

-----------------------------------------------------------------------------
(* C18 *)

\* C18: when a chat request succeeds with a non-empty answer, exactly one
\* message is appended, a bot message that stands right after the user
\* message of that send; its text is the response's answer; its citations
\* are the response's context entries, as many and in the same order, shown
\* with a count equal to their number; an empty context gives no citations.
C18_AnswerWithCitationsAfterUserMessage ==
    [][ (last'.op = "chatDone" /\ last'.resp.ok /\ last'.resp.answer \notin {Null, ""})
        => LET n == Len(chatMessages') IN
           /\ Cardinality(MessagesIn(chatMessages'))
                = Cardinality(MessagesIn(chatMessages)) + 1
           /\ n >= 2
           /\ chatMessages'[n - 1].kind = "message"
           /\ chatMessages'[n - 1].role = "user"
           /\ chatMessages'[n - 1].text = last'.input.core
           /\ chatMessages'[n].kind = "message"
           /\ chatMessages'[n].role = "bot"
           /\ chatMessages'[n].text = last'.resp.answer
           /\ chatMessages'[n].sources = CitationsOf(last'.resp)
           /\ chatMessages'[n].count = Len(CitationsOf(last'.resp)) ]_vars

\* The part of C18 about the reply alone, which holds: exactly one message
\* is appended, at the end, with the answer as text and the context entries
\* as citations.
C18_ReplyAsReceived ==
    [][ (last'.op = "chatDone" /\ last'.resp.ok /\ last'.resp.answer \notin {Null, ""})
        => LET n == Len(chatMessages') IN
           /\ Cardinality(MessagesIn(chatMessages'))
                = Cardinality(MessagesIn(chatMessages)) + 1
           /\ n >= 1
           /\ chatMessages'[n].kind = "message"
           /\ chatMessages'[n].role = "bot"
           /\ chatMessages'[n].text = last'.resp.answer
           /\ chatMessages'[n].sources = CitationsOf(last'.resp)
           /\ chatMessages'[n].count = Len(CitationsOf(last'.resp)) ]_vars

-----------------------------------------------------------------------------
(* C19 *)

\* C19: when a chat request completes with a well-formed response whose
\* answer is missing or empty, exactly one message is appended, the fixed
\* fallback apology as a bot message without citations, whatever context the
\* response carries; no notification is raised and the fixed
\* connection-error message is not appended.
C19_NoAnswerGivesFallback ==
    [][ (last'.op = "chatDone" /\ last'.resp.ok /\ last'.resp.answer \in {Null, ""})
        => LET n == Len(chatMessages') IN
           /\ Cardinality(MessagesIn(chatMessages'))
                = Cardinality(MessagesIn(chatMessages)) + 1
           /\ n >= 1
           /\ chatMessages'[n] =
                [kind |-> "message", role |-> "bot", text |-> AnswerFallback,
                 count |-> 0, sources |-> << >>]
           /\ chatMessages'[n].text # ConnectionError
           /\ toasts' = << >> ]_vars

\* A response with an empty answer and a context entry has just arrived:
\* the transcript ends with the fallback apology.
C19_Witness ==
    /\ last.op = "chatDone"
    /\ last.resp.ok
    /\ last.resp.answer = ""
    /\ Len(last.resp.context) = 1
    /\ Len(chatMessages) >= 2
    /\ chatMessages[Len(chatMessages)].text = AnswerFallback
    /\ chatMessages[Len(chatMessages) - 1].role = "user"

-----------------------------------------------------------------------------
(* C20 *)

\* C20 as stated: when handleFileUpload rejects a batch at validation, it
\* shows as many error notifications as the batch has offending files, a
\* file that breaks both rules counting once.
C20_OneToastPerOffendingFile ==
    [][ (last'.op \in UploadTriggers /\ ~isProcessing /\ HasOffendingFile(last'.files))
        => /\ Len(toasts')
                = Cardinality(NonPdfFiles(last'.files) \cup OversizeFiles(last'.files))
           /\ \A i \in 1..Len(toasts') : toasts'[i].type = "error" ]_vars

\* C20 amended: when handleFileUpload rejects a batch at validation, it
\* shows one error notification per broken rule per file: as many as there
\* are non-PDF files plus files larger than 10 MiB, a file that breaks both
\* rules giving two; each names its file.
C20_OneToastPerBrokenRule ==
    [][ (last'.op \in UploadTriggers /\ ~isProcessing /\ HasOffendingFile(last'.files))
        => /\ Len(toasts')
                = Cardinality(NonPdfFiles(last'.files))
                  + Cardinality(OversizeFiles(last'.files))
           /\ \A i \in 1..Len(toasts') :
                /\ toasts'[i].type = "error"
                /\ \E k \in NonPdfFiles(last'.files) \cup OversizeFiles(last'.files) :
                      toasts'[i].arg = last'.files[k].name
           /\ \A k \in NonPdfFiles(last'.files) \cap OversizeFiles(last'.files) :
                Cardinality({ i \in 1..Len(toasts') :
                                toasts'[i].arg = last'.files[k].name }) = 2 ]_vars

\* A batch of one valid PDF and one oversize Word document has just been
\* rejected with two notifications.
C20_Witness ==
    /\ last.op \in UploadTriggers
    /\ ~last.busy
    /\ Len(last.files) = 2
    /\ Cardinality(NonPdfFiles(last.files) \cap OversizeFiles(last.files)) = 1
    /\ Cardinality(NonPdfFiles(last.files) \cup OversizeFiles(last.files)) = 1
    /\ Len(toasts) = 2

-----------------------------------------------------------------------------
(* C21 *)

\* C21: when the backend answers an upload or chat request with a
\* non-success status, the error raised carries the detail string of the
\* body when it has one, and the generic message ('Upload failed' / 'Chat
\* request failed') when the detail is absent or the body cannot be parsed;
\* a transport failure, too, reaches the workflow as an error with a
\* message; the upload workflow shows that message as its notification.
C21_ErrorCarriesDetailOrGeneric ==
    [][ (last'.op \in {"uploadDone", "chatDone"} /\ ~last'.resp.ok)
        => LET o == last'.resp.outcome
               generic == IF last'.op = "uploadDone" THEN "Upload failed"
                          ELSE "Chat request failed"
           IN /\ o.status = "non2xx"
                  => last'.resp.message =
                        IF o.body = "json" /\ o.detail \notin {Null, ""}
                        THEN o.detail ELSE generic
              /\ last'.resp.message # ""
              /\ last'.op = "uploadDone"
                  => toasts' = << Toast(last'.resp.message, "", "error") >> ]_vars

\* The part of C21 without the unparseable body, which holds: a parsed
\* error body gives its detail, or the generic message when it has none.
C21_ParsedErrorBody ==
    [][ ( /\ last'.op \in {"uploadDone", "chatDone"}
          /\ last'.resp.outcome.status = "non2xx"
          /\ last'.resp.outcome.body = "json" )
        => last'.resp.message =
             IF last'.resp.outcome.detail \notin {Null, ""}
             THEN last'.resp.outcome.detail
             ELSE IF last'.op = "uploadDone" THEN "Upload failed"
                  ELSE "Chat request failed" ]_vars

-----------------------------------------------------------------------------
(* C22 *)

\* C22: a validation failure (a batch with a non-PDF or oversize file, a
\* message that is empty after trimming, a message of more than 2000
\* characters) changes neither the busy flag, nor the active screen, nor the
\* transcript, nor the remembered file list, nor the held session id, nor
\* the text of the message input, and issues no request: it may only show
\* notifications.
C22_ValidationFailureMutatesNothing ==
    [][ ( \/ last'.op \in UploadTriggers /\ HasOffendingFile(last'.files)
          \/ /\ last'.op \in SendTriggers
             /\ BlankText(messageInput) \/ OverLongText(messageInput) )
        => UNCHANGED <<isProcessing, uploadScreenActive, chatScreenActive,
                       chatMessages, currentFiles, sessionId, messageInput,
                       requests, timers>> ]_vars

\* After a failed upload has left its files remembered, a batch with an
\* offending file has been rejected with a notification.
C22_Witness ==
    /\ last.op \in UploadTriggers
    /\ ~last.busy
    /\ HasOffendingFile(last.files)
    /\ currentFiles # << >>
    /\ currentFiles # last.files
    /\ toasts # << >>

-----------------------------------------------------------------------------
(* C23 *)

SuccessToastIn(ts) == \E i \in 1..Len(ts) : ts[i].type = "success"

\* C23: the upload success notification is shown, and the timer that
\* switches to ChatScreen is scheduled, only by the step in which an upload
\* request received a success response; an upload trigger that arrives
\* while no session id is held shows no success notification and schedules
\* no switch to ChatScreen; ChatScreen becomes active only through such a
\* timer.
C23_SuccessOnlyAfterBackendSuccess ==
    [][ /\ (SuccessToastIn(toasts') \/ Len(timers') > Len(timers))
            => (last'.op = "uploadDone" /\ last'.resp.ok)
        /\ (last'.op \in UploadTriggers /\ ~Truthy(sessionId))
            => (~SuccessToastIn(toasts') /\ timers' = timers)
        /\ (chatScreenActive' /\ ~chatScreenActive) => last'.op = "timer" ]_vars

-----------------------------------------------------------------------------
(* C24 *)

\* A screen-switch timer scheduled by a success response that carried the
\* backend's welcome text is pending.
BackendSuccessPending(ts) == \E i \in 1..Len(ts) : ts[i].welcome_message # Null

\* C24: once an upload has succeeded, and in particular while its
\* screen-switch timer is pending and the busy flag is false again, no
\* further upload request is issued, no further success arrives and no
\* second screen-switch timer is scheduled.
C24_AtMostOneUploadSucceeds ==
    [][ BackendSuccessPending(timers)
        => /\ Cardinality(UploadsInFlight(requests')) <= Cardinality(UploadsInFlight(requests))
           /\ Len(timers') <= Len(timers)
           /\ ~(last'.op = "uploadDone" /\ last'.resp.ok) ]_vars

-----------------------------------------------------------------------------
(* C25 *)

TypingIndicators(msgs) == { i \in 1..Len(msgs) : msgs[i].kind = "typing" }

\* C25: the transcript holds at most one typing indicator; when it holds
\* one, a chat request is in flight and the busy flag is true (so an idle
\* client shows none); the step that handles the outcome of a chat request,
\* response or failure, leaves no typing indicator behind.
C25_TypingOnlyWhileChatInFlight ==
    /\ [](/\ Cardinality(TypingIndicators(chatMessages)) <= 1
          /\ TypingIndicators(chatMessages) # {}
               => (ChatsInFlight(requests) # {} /\ isProcessing))
    /\ [][ last'.op = "chatDone" => TypingIndicators(chatMessages') = {} ]_vars

\* A failed chat request has been handled while the indicator was showing:
\* the indicator is gone and the error message stands where it was.
C25_Witness ==
    /\ last.op = "chatDone"
    /\ ~last.resp.ok
    /\ last.busy
    /\ Len(chatMessages) >= 2
    /\ chatMessages[Len(chatMessages)] = errorReply
    /\ chatMessages[Len(chatMessages) - 1].role = "user"
    /\ TypingIndicators(chatMessages) = {}

-----------------------------------------------------------------------------
(* C26 *)

\* C26: while the screen-switch timer of a successful upload is pending the
\* loading overlay is visible; it is hidden once ChatScreen is active and
\* while a chat request is in flight.
C26_OverlayBetweenSuccessAndSwitch ==
    /\ (timers # << >> /\ last.op = "uploadDone" /\ last.resp.ok) => ~overlayHidden
    /\ chatScreenActive => overlayHidden
    /\ ChatsInFlight(requests) # {} => overlayHidden

====
